---- MODULE Spec2Model ----
(***************************************************************************)
(* A model of lit-html's TemplateInstance (src/src/lib/template-instance.ts)*)
(* as extended with inline component slots: _clone() walks a clone of the   *)
(* template's tree in step with the template's part descriptors, replaces   *)
(* component placeholders by component instances, and binds Parts;          *)
(* update() and updateWithoutCommit() then stage and commit values.         *)
(***************************************************************************)
EXTENDS Integers, Sequences, FiniteSets, TLC

\* ------------------------------------------------------------------ bounds

\* Largest number of nodes in a template's static tree.
MaxNodes == 3
\* Largest number of nodes of the trees that vary tag names, attributes,
\* registries and fan-out.
MaxSmallNodes == 2
\* Largest number of part descriptors of a template.
MaxParts == 2
\* Largest length of a values array handed to update / updateWithoutCommit.
MaxVals == 2
\* Largest number of _clone() calls on one instance (SpecUpdate only).
MaxClones == 2
\* Largest number of nodes of the trees of nested templates and plain
\* elements only.
MaxDeepNodes == 4

\* Numbers of attributes a component placeholder may carry.
AttrCounts == {0, 1, 2, 3}
\* Numbers of Parts one handleAttributeExpressions call may return.
Fans == {0, 1, 2}
\* Slot names, and what tells one values array from another.
Names == {"w", "x"}
Tags == {"a", "b"}

\* ------------------------------------------------------- program constants

\* `null`, as returned by walker.nextNode() and held by `node`.
Null == -1
\* The DocumentFragment the walker is rooted at.
Root == 0
\* values[i] for an index outside the array, and a Part's value before any
\* setValue.
Undefined == <<"undefined">>
\* The reserved marker substring of a component placeholder's tag name.
mark == "mark"
\* Node.nodeType of elements and comments, and the whatToShow mask.
ELEMENT_NODE == 1
TEXT_NODE == 3
COMMENT_NODE == 8
\* part.index of an inactive descriptor.
InactiveIndex == -1

\* A tag name is a sequence of tokens; "-" is the hyphen.
DivName == <<"div">>
TemplateName == <<"template">>
HyphenName == <<"my", "-", "el">>
SlotTag(name) == <<mark, "-", name>>

\* ------------------------------------------------------------ the template

\* The attribute nodes of a placeholder with k attributes. An attribute node
\* (a name with its value) is identified by its number.
AttrSeq(k) == [i \in 1..k |-> i]

\* One node of a template's static tree: nodes are listed in canonical
\* (document) order, nested template content inline; parent is the position of
\* the parent element (of the enclosing <template> for a node of its content),
\* 0 for a child of the template's root content.
TemplateNode(type, name, attrs, parent) ==
  [nodeType |-> type, localName |-> name, attrs |-> attrs, parent |-> parent]

\* The ancestors-or-self of node i, and the root.
RECURSIVE Chain(_, _)
Chain(t, i) == IF i = 0 THEN {0} ELSE {i} \cup Chain(t, t[i].parent)

\* Where the next node in document order may hang: under the last node or one
\* of its ancestors, if that is an element.
ValidParents(t) == {p \in Chain(t, Len(t)) : p = 0 \/ t[p].nodeType = ELEMENT_NODE}

\* All trees of n nodes over the given (nodeType, localName, attrs) shapes.
RECURSIVE TreesOfSize(_, _)
TreesOfSize(shapes, n) ==
  IF n = 0 THEN {<<>>}
  ELSE UNION {{Append(t, TemplateNode(s[1], s[2], s[3], p)) :
                 s \in shapes, p \in ValidParents(t)} :
              t \in TreesOfSize(shapes, n - 1)}

TreesUpTo(shapes, n) == UNION {TreesOfSize(shapes, k) : k \in 0..n}

\* Node i has a previous sibling.
HasPrev(t, i) == \E j \in 1..(i - 1) : t[j].parent = t[i].parent

\* A part descriptor (TemplatePart). fan is the number of Parts the
\* processor's handleAttributeExpressions returns for it.
TemplatePart(type, index, fan) == [type |-> type, index |-> index, fan |-> fan]

InactivePart == TemplatePart("node", InactiveIndex, 0)

\* isTemplatePartActive of template.js.
isTemplatePartActive(part) == part.index # InactiveIndex

\* The descriptors a parse of tree t can produce: a node part at a comment
\* that has a previous sibling, an attribute part at an element.
PartChoices(t, fans) ==
  {TemplatePart("node", i - 1, 1) :
     i \in {j \in 1..Len(t) : t[j].nodeType = COMMENT_NODE /\ HasPrev(t, j)}}
  \cup {TemplatePart("attribute", i - 1, f) :
          i \in {j \in 1..Len(t) : t[j].nodeType = ELEMENT_NODE}, f \in fans}

\* The position of the last active descriptor of l, -1 if none.
RECURSIVE LastIndex(_)
LastIndex(l) ==
  IF l = <<>> THEN InactiveIndex
  ELSE IF isTemplatePartActive(l[Len(l)]) THEN l[Len(l)].index
  ELSE LastIndex(SubSeq(l, 1, Len(l) - 1))

\* Descriptor lists of length n: positions never decrease, and only attribute
\* parts share a node.
RECURSIVE PartLists(_, _, _)
PartLists(t, fans, n) ==
  IF n = 0 THEN {<<>>}
  ELSE UNION {{Append(l, d) :
                 d \in {c \in PartChoices(t, fans) \cup {InactivePart} :
                          \/ ~isTemplatePartActive(c)
                          \/ c.index > LastIndex(l)
                          \/ c.index = LastIndex(l) /\ c.type = "attribute"}} :
              l \in PartLists(t, fans, n - 1)}

PartListsUpTo(t, fans, n) == UNION {PartLists(t, fans, k) : k \in 0..n}

\* The tag names of the slots of tree t.
SlotNamesOf(t) == {n \in Names : \E i \in 1..Len(t) : t[i].localName = SlotTag(n)}

\* ---------------------------------------------------------------- the state

VARIABLES
  template,             \* this.template: [nodes, parts]
  context,              \* this.context: [present, declarations]
  customElements,       \* the ambient registry: the names it knows
  dom,                  \* the cloned fragment's tree
  walker,               \* walker.currentNode
  stack,                \* stack of template elements being walked
  node,                 \* the live node, Null when the walker ran out
  partIndex,
  nodeIndex,
  customElementsCount,
  __parts,              \* this.__parts
  pc,                   \* "idle", "loop" (at line 133), "done", "error"
  err,                  \* the exception _clone() ended with
  iter,                 \* parity of the loop iterations begun
  materialized,         \* the placeholders replaced, in order
  clones,               \* _clone() calls begun
  lastOp                \* the last update call since _clone(): name, values, calls

cloneVars == <<dom, walker, stack, node, partIndex, nodeIndex,
               customElementsCount, pc, err, iter, materialized, clones>>
updateVars == <<lastOp>>
inputs == <<template, context, customElements>>
vars == <<template, context, customElements, dom, walker, stack, node,
          partIndex, nodeIndex, customElementsCount, __parts, pc, err, iter,
          materialized, clones, lastOp>>

\* ----------------------------------------------------------------- the tree

\* Node ids of a clone of a template of n nodes: i for the clone of template
\* node i, n + i for the component instance that replaces it, 2n + i for the
\* text node that instance is given.
InstanceOf(n, i) == n + i
TextOf(n, i) == 2 * n + i

\* template.content of nested template element i, as a walker position.
Content(i) == Null - i
IsContent(ref) == ref < Null
TemplateOf(ref) == Null - ref

\* The ids 1..n in order.
Ids(n) == [i \in 1..n |-> i]

\* document.importNode(this.template.element.content, true): a tree of the
\* same shape. A nested template's children hang under its content fragment.
importNode(t) ==
  LET n == Len(t)
      ref(p) == IF p = 0 THEN Root
                ELSE IF t[p].localName = TemplateName THEN Content(p) ELSE p
  IN [nodeType   |-> [i \in 1..(3 * n) |-> IF i <= n THEN t[i].nodeType ELSE 0],
      localName  |-> [i \in 1..(3 * n) |-> IF i <= n THEN t[i].localName ELSE <<>>],
      attributes |-> [i \in 1..(3 * n) |-> IF i <= n THEN t[i].attrs ELSE <<>>],
      parentNode |-> [i \in 1..(3 * n) |-> IF i <= n THEN ref(t[i].parent) ELSE Null],
      childNodes |-> [c \in 0..(3 * n) |->
                        SelectSeq(Ids(n), LAMBDA i : t[i].parent = c)]]

\* The child list a position holds: the root's, a content fragment's, an
\* element's. A <template> element itself has no children.
ChildrenOf(d, ref) ==
  IF ref = Root THEN d.childNodes[0]
  ELSE IF IsContent(ref) THEN d.childNodes[TemplateOf(ref)]
  ELSE IF d.localName[ref] = TemplateName THEN <<>>
  ELSE d.childNodes[ref]

\* The index of child n in the list s (0 if absent).
IndexIn(s, n) == IF \E i \in 1..Len(s) : s[i] = n
                 THEN CHOOSE i \in 1..Len(s) : s[i] = n ELSE 0

firstChild(d, ref) ==
  IF ChildrenOf(d, ref) = <<>> THEN Null ELSE ChildrenOf(d, ref)[1]

\* The list node n is a child in.
SiblingsOf(d, n) ==
  LET p == d.parentNode[n]
  IN IF p = Null THEN <<>>
     ELSE IF p = Root THEN d.childNodes[0]
     ELSE IF IsContent(p) THEN d.childNodes[TemplateOf(p)]
     ELSE d.childNodes[p]

nextSibling(d, n) ==
  LET s == SiblingsOf(d, n)
      i == IndexIn(s, n)
  IN IF i = 0 \/ i = Len(s) THEN Null ELSE s[i + 1]

previousSibling(d, n) ==
  LET s == SiblingsOf(d, n)
      i == IndexIn(s, n)
  IN IF i <= 1 THEN Null ELSE s[i - 1]

\* The next node after ref that is not below it, staying inside the tree
\* ref is in: a content fragment has no parent, so a walk inside a nested
\* template ends at the end of its content.
RECURSIVE NextSkippingChildren(_, _)
NextSkippingChildren(d, ref) ==
  IF ref = Root \/ ref = Null \/ IsContent(ref) THEN Null
  ELSE IF nextSibling(d, ref) # Null THEN nextSibling(d, ref)
  ELSE NextSkippingChildren(d, d.parentNode[ref])

\* walker.nextNode() from currentNode cur: every element, text and comment
\* node is shown (whatToShow 133), so this is the next node in document
\* order, or null.
nextNode(d, cur) ==
  IF firstChild(d, cur) # Null THEN firstChild(d, cur)
  ELSE NextSkippingChildren(d, cur)

\* walker.currentNode after nextNode() returned n: unchanged on null.
CurrentAfter(cur, n) == IF n = Null THEN cur ELSE n

\* ------------------------------------------------------- component slots

\* customElementOpeningTagRegex, /<[a-zA-Z0-9]+-[a-zA-Z0-9-]+/g, on one
\* opening tag: a name, a hyphen, and more.
customElementOpeningTagRegex(name) ==
  Len(name) >= 3 /\ name[1] # "-" /\ name[2] = "-"

\* Faulty variant: The regex without its g flag: match() gives the first match only.
MatchCountFirst(t) ==
  IF \E i \in 1..Len(t) : t[i].nodeType = ELEMENT_NODE
                           /\ customElementOpeningTagRegex(t[i].localName)
  THEN 1 ELSE 0

\* this.template.element.innerHTML.match(re)?.length || 0: the markup holds
\* one opening tag per element, nested template content included; text and
\* comments are written without a "<name".
MatchCount(t) ==
  Len(SelectSeq(t, LAMBDA n : n.nodeType = ELEMENT_NODE
                               /\ customElementOpeningTagRegex(n.localName)))

\* localName.includes(mark)
includes(name, m) == \E i \in 1..Len(name) : name[i] = m

\* Faulty variant: The marker is left in the selector.
replaceNothing(name, m) == name

\* localName.replace(`${mark}-`, ''): the first "mark-" is cut out.
replace(name, m) ==
  LET hits == {i \in 1..(Len(name) - 1) : name[i] = m /\ name[i + 1] = "-"}
  IN IF hits = {} THEN name
     ELSE LET i == CHOOSE h \in hits : \A g \in hits : h <= g
          IN SubSeq(name, 1, i - 1) \o SubSeq(name, i + 2, Len(name))

\* node?.nodeType === 1 && localName.includes(mark)
isCustomElement(d, n) ==
  n # Null /\ d.nodeType[n] = ELEMENT_NODE /\ includes(d.localName[n], mark)

\* registry[selector] is defined: the selector spells one of the names.
Has(registry, selector) == \E n \in registry : selector = <<n>>

\* The loop of lines 177-181 over the live attribute list of the old node:
\* attributes[i] is removed from the old node and set on the instance, then
\* i is incremented. at is [old, new], the two attribute lists.
RECURSIVE MoveAttributes(_, _)
MoveAttributes(i, at) ==
  IF ~(i < Len(at.old)) THEN at
  ELSE MoveAttributes(i + 1,
         [old |-> SubSeq(at.old, 1, i) \o SubSeq(at.old, i + 2, Len(at.old)),
          new |-> Append(at.new, at.old[i + 1])])

\* s with element a replaced by b.
ReplaceIn(s, a, b) == [i \in 1..Len(s) |-> IF s[i] = a THEN b ELSE s[i]]

\* Faulty variant: the instance bears the placeholder's tag name, marker
\* included, as a copy of the placeholder would.
MaterializeKeepingName(d, n, selector) ==
  LET size == Len(template.nodes)
      inst == InstanceOf(size, n)
      txt  == TextOf(size, n)
      p    == d.parentNode[n]
      key  == IF p = Root THEN 0 ELSE IF IsContent(p) THEN TemplateOf(p) ELSE p
      hasMarkup == ChildrenOf(d, n) # <<>>
      moved == MoveAttributes(0, [old |-> d.attributes[n], new |-> <<>>])
  IN [nodeType   |-> [d.nodeType EXCEPT ![inst] = ELEMENT_NODE,
                                        ![txt] = IF hasMarkup THEN TEXT_NODE ELSE @],
      localName  |-> [d.localName EXCEPT ![inst] = d.localName[n],
                                         ![txt] = IF hasMarkup THEN <<"#text">> ELSE @],
      attributes |-> [d.attributes EXCEPT ![n] = moved.old, ![inst] = moved.new],
      parentNode |-> [d.parentNode EXCEPT ![inst] = p, ![n] = Null,
                                          ![txt] = IF hasMarkup THEN inst ELSE @],
      childNodes |-> [d.childNodes EXCEPT ![key] = ReplaceIn(@, n, inst),
                                          ![inst] = IF hasMarkup THEN <<txt>> ELSE <<>>]]

\* Lines 172-181: a new instance takes n's place under n's parent, gets n's
\* markup as its text, and gets n's attributes by the loop above.
Materialize(d, n, selector) ==
  LET size == Len(template.nodes)
      inst == InstanceOf(size, n)
      txt  == TextOf(size, n)
      p    == d.parentNode[n]
      key  == IF p = Root THEN 0 ELSE IF IsContent(p) THEN TemplateOf(p) ELSE p
      hasMarkup == ChildrenOf(d, n) # <<>>
      moved == MoveAttributes(0, [old |-> d.attributes[n], new |-> <<>>])
  IN [nodeType   |-> [d.nodeType EXCEPT ![inst] = ELEMENT_NODE,
                                        ![txt] = IF hasMarkup THEN TEXT_NODE ELSE @],
      localName  |-> [d.localName EXCEPT ![inst] = selector,
                                         ![txt] = IF hasMarkup THEN <<"#text">> ELSE @],
      attributes |-> [d.attributes EXCEPT ![n] = moved.old, ![inst] = moved.new],
      parentNode |-> [d.parentNode EXCEPT ![inst] = p, ![n] = Null,
                                          ![txt] = IF hasMarkup THEN inst ELSE @],
      childNodes |-> [d.childNodes EXCEPT ![key] = ReplaceIn(@, n, inst),
                                          ![inst] = IF hasMarkup THEN <<txt>> ELSE <<>>]]

\* ---------------------------------------------------------------- Parts

\* An entry of __parts: a hole (undefined), or a Part with the descriptor
\* (part, 0-based) and node it was created for, the values staged and
\* committed.
Hole == [hole |-> TRUE, type |-> "undefined", part |-> InactiveIndex,
         node |-> Null, anchor |-> Null, pending |-> Undefined,
         value |-> Undefined]

NewPart(type, index, n, anchor) ==
  [hole |-> FALSE, type |-> type, part |-> index, node |-> n,
   anchor |-> anchor, pending |-> Undefined, value |-> Undefined]

\* Part.setValue(v): stages v.
setValue(p, v) == [p EXCEPT !.pending = v]

\* Part.commit(): writes the staged value to the tree.
commit(p) == [p EXCEPT !.value = p.pending]

\* processor.handleTextExpression(options, part) and insertAfterNode(anchor)
handleTextExpression(index, n, anchor) == NewPart("node", index, n, anchor)

\* processor.handleAttributeExpressions(node, name, strings, options, part):
\* the Parts of one attribute, part.fan of them.
handleAttributeExpressions(n, index, part) ==
  [k \in 1..part.fan |-> NewPart("attribute", index, n, Null)]

\* ------------------------------------------------------------- exceptions

NoError == [name |-> "", message |-> <<>>, line |-> 0]

\* new Error(`Make sure that you've added ${selector} into declarations!`)
DeclarationsError(selector) ==
  [name |-> "Error",
   message |-> <<"Make sure that you've added ">> \o selector
               \o <<" into declarations!">>,
   line |-> 170]

\* What the engine throws on a null dereference or a call of undefined.
TypeError(line) == [name |-> "TypeError", message |-> <<>>, line |-> line]

\* ------------------------------------------------------------------ Init

\* The (nodeType, localName, attributes) of template nodes.
Div == <<ELEMENT_NODE, DivName, <<>>>>
Template == <<ELEMENT_NODE, TemplateName, <<>>>>
Hyphenated == <<ELEMENT_NODE, HyphenName, <<>>>>
Comment == <<COMMENT_NODE, <<"#comment">>, <<>>>>
Slot(name, k) == <<ELEMENT_NODE, SlotTag(name), AttrSeq(k)>>

\* Slot names are interchangeable: "x" is used only after "w".
Canonical(t) ==
  \A i \in 1..Len(t) : t[i].localName = SlotTag("x")
                         => \E j \in 1..(i - 1) : t[j].localName = SlotTag("w")

Absent == [present |-> FALSE, declarations |-> {}]
Declaring(names) == [present |-> TRUE, declarations |-> names]

\* No context, or one that declares every slot of the tree; nothing ambient.
BasicRegistries(t) ==
  {[context |-> Absent, customElements |-> {}]}
  \cup IF SlotNamesOf(t) = {} THEN {}
       ELSE {[context |-> Declaring(SlotNamesOf(t)), customElements |-> {}]}

\* No context or one declaring any of the names the tree uses, and an ambient
\* registry knowing any of them.
AllRegistries(t) ==
  {[context |-> c, customElements |-> a] :
     c \in {Absent} \cup {Declaring(ds) : ds \in SUBSET SlotNamesOf(t)},
     a \in SUBSET SlotNamesOf(t)}

NoCall == [name |-> "", values |-> <<>>, calls |-> <<>>, previous |-> <<>>]

\* The state after `new TemplateInstance(template, processor, options, context)`
\* for the template of tree t with descriptors l, under registry r.
Constructed(t, l, r) ==
  /\ template = [nodes |-> t, parts |-> l]
  /\ context = r.context
  /\ customElements = r.customElements
  /\ dom = importNode(<<>>)
  /\ walker = Root
  /\ stack = <<>>
  /\ node = Null
  /\ partIndex = 0
  /\ nodeIndex = 0
  /\ customElementsCount = 0
  /\ __parts = <<>>
  /\ pc = "idle"
  /\ err = NoError
  /\ iter = 0
  /\ materialized = <<>>
  /\ clones = 0
  /\ lastOp = NoCall

\* A context that declares the slots, and one that does not.
UpdateRegistries(t) ==
  IF SlotNamesOf(t) = {} THEN {[context |-> Absent, customElements |-> {}]}
  ELSE {[context |-> Declaring(ds), customElements |-> {}] :
          ds \in {{}, SlotNamesOf(t)}}

\* The registries of a family of instances.
RegistriesOf(family, t) ==
  CASE family = "basic"  -> BasicRegistries(t)
    [] family = "all"    -> AllRegistries(t)
    [] family = "update" -> UpdateRegistries(t)

\* The instances a caller can construct: a tree, a descriptor list a parse of
\* it can give, a context and an ambient registry.
Scenarios(trees, fans, maxParts, family) ==
  \E t \in trees :
    \E l \in PartListsUpTo(t, fans, maxParts) :
      \E r \in RegistriesOf(family, t) : Constructed(t, l, r)

\* Tree structure: every tree of plain elements, nested templates, comments
\* and placeholders, with every descriptor list.
StructureScenarios ==
  Scenarios(TreesUpTo({Div, Template, Comment, Slot("w", 0)}, MaxNodes),
            {1}, MaxParts, "basic")

\* Hyphenated tags that are no placeholders, among the others.
HyphenScenarios ==
  Scenarios(TreesUpTo({Div, Hyphenated, Comment, Slot("w", 0)}, MaxSmallNodes),
            {1}, 1, "basic")

\* Registries: slots of either name under every context and ambient registry.
RegistryScenarios ==
  Scenarios({t \in TreesUpTo({Comment, Slot("w", 0), Slot("x", 0)}, MaxSmallNodes) :
               Canonical(t)},
            {1}, MaxParts, "all")

\* Placeholders with attributes.
AttributeScenarios ==
  Scenarios(TreesUpTo({Comment} \cup {Slot("w", k) : k \in AttrCounts}, MaxSmallNodes),
            {1}, 1, "basic")

\* Attribute parts of any number of Parts, node parts and holes.
FanScenarios ==
  Scenarios(TreesUpTo({Div, Comment}, MaxSmallNodes), Fans, MaxParts, "basic")

\* Nesting: deeper trees of nested templates and plain elements, one
\* descriptor.
NestingScenarios ==
  Scenarios(TreesUpTo({Div, Template}, MaxDeepNodes), {1}, 1, "basic")

Init ==
  \/ StructureScenarios
  \/ HyphenScenarios
  \/ RegistryScenarios
  \/ AttributeScenarios
  \/ FanScenarios
  \/ NestingScenarios

\* ---------------------------------------------------------------- _clone

\* Lines 113-130: clone the template's content, create the walker and take
\* its first node, count the hyphenated opening tags of the markup.
CloneBegin ==
  /\ pc = "idle"
  /\ LET d == importNode(template.nodes)
         first == nextNode(d, Root)
     IN /\ dom' = d
        /\ node' = first
        /\ walker' = CurrentAfter(Root, first)
  /\ stack' = <<>>
  /\ partIndex' = 0
  /\ nodeIndex' = 0
  /\ customElementsCount' = MatchCount(template.nodes)
  /\ pc' = "loop"
  /\ clones' = clones + 1
  /\ materialized' = <<>>
  /\ lastOp' = NoCall
  /\ UNCHANGED <<inputs, __parts, err, iter>>

\* `part = parts[partIndex]` is defined.
HasPart == partIndex < Len(template.parts)
part == template.parts[partIndex + 1]

\* Line 133
LoopCondition == partIndex < Len(template.parts) + customElementsCount

\* Faulty variant: An inactive part is stepped over and leaves nothing.
SkipInactiveNoHole ==
  /\ pc = "loop" /\ LoopCondition
  /\ HasPart /\ ~isTemplatePartActive(part)
  /\ partIndex' = partIndex + 1
  /\ iter' = 1 - iter
  /\ UNCHANGED <<inputs, dom, walker, stack, node, nodeIndex, __parts,
                 customElementsCount, pc, err, materialized, clones, updateVars>>

\* Faulty variant: the walker is stepped for an inactive part as well.
SkipInactiveAdvancing ==
  /\ pc = "loop" /\ LoopCondition
  /\ HasPart /\ ~isTemplatePartActive(part)
  /\ __parts' = Append(__parts, Hole)
  /\ partIndex' = partIndex + 1
  /\ iter' = 1 - iter
  /\ node' = nextNode(dom, walker)
  /\ walker' = CurrentAfter(walker, nextNode(dom, walker))
  /\ UNCHANGED <<inputs, dom, stack, nodeIndex, customElementsCount, pc, err,
                 materialized, clones, updateVars>>

\* Lines 134-139: an inactive part leaves a hole.
SkipInactive ==
  /\ pc = "loop" /\ LoopCondition
  /\ HasPart /\ ~isTemplatePartActive(part)
  /\ __parts' = Append(__parts, Hole)
  /\ partIndex' = partIndex + 1
  /\ iter' = 1 - iter
  /\ UNCHANGED <<inputs, dom, walker, stack, node, nodeIndex,
                 customElementsCount, pc, err, materialized, clones, updateVars>>

\* Lines 144-158, one iteration of the inner loop: count the node, enter a
\* nested template's content, step the walker, and when it ran out, resume
\* after the template on top of the stack.
AdvanceCursor ==
  /\ pc = "loop" /\ LoopCondition
  /\ HasPart /\ isTemplatePartActive(part) /\ nodeIndex < part.index
  /\ nodeIndex' = nodeIndex + 1
  /\ IF node = Null
     THEN \* node!.nodeName of null
          /\ pc' = "error" /\ err' = TypeError(146)
          /\ UNCHANGED <<walker, stack, node>>
     ELSE LET isTemplate == dom.localName[node] = TemplateName
              pushed == IF isTemplate THEN Append(stack, node) ELSE stack
              cur == IF isTemplate THEN Content(node) ELSE walker
              next == nextNode(dom, cur)
          IN IF next # Null
             THEN /\ node' = next /\ walker' = next /\ stack' = pushed
                  /\ UNCHANGED <<pc, err>>
             ELSE IF pushed = <<>>
             THEN \* walker.currentNode = undefined
                  /\ pc' = "error" /\ err' = TypeError(155)
                  /\ node' = Null /\ walker' = cur /\ stack' = pushed
             ELSE LET top == pushed[Len(pushed)]
                      after == nextNode(dom, top)
                  IN /\ stack' = SubSeq(pushed, 1, Len(pushed) - 1)
                     /\ node' = after
                     /\ walker' = CurrentAfter(top, after)
                     /\ UNCHANGED <<pc, err>>
  /\ UNCHANGED <<inputs, dom, partIndex, customElementsCount, __parts, iter,
                 materialized, clones, updateVars>>

\* Lines 159-196, the rest of one iteration: without a part, step to the next
\* node; replace a component placeholder by its instance; bind the part.
ArriveAndBind ==
  /\ pc = "loop" /\ LoopCondition
  /\ ~(HasPart /\ ~isTemplatePartActive(part))
  /\ ~(HasPart /\ nodeIndex < part.index)
  /\ iter' = 1 - iter
  /\ LET n1 == IF HasPart THEN node ELSE nextNode(dom, walker)
         w1 == IF HasPart THEN walker ELSE CurrentAfter(walker, n1)
         resolve == isCustomElement(dom, n1) /\ context.present
         selector == replace(dom.localName[n1], mark)
         ctor == Has(context.declarations, selector)
     IN /\ customElementsCount' =
             IF resolve THEN customElementsCount - 1 ELSE customElementsCount
        /\ IF resolve /\ ~ctor /\ ~Has(customElements, selector)
           THEN \* line 170
                /\ pc' = "error" /\ err' = DeclarationsError(selector)
                /\ node' = n1 /\ walker' = w1
                /\ UNCHANGED <<dom, materialized, __parts, partIndex>>
           ELSE IF resolve /\ ~ctor
           THEN \* line 172: new ctor(...) with ctor undefined
                /\ pc' = "error" /\ err' = TypeError(172)
                /\ node' = n1 /\ walker' = w1
                /\ UNCHANGED <<dom, materialized, __parts, partIndex>>
           ELSE LET d2 == IF resolve THEN Materialize(dom, n1, selector) ELSE dom
                    n2 == IF resolve THEN InstanceOf(Len(template.nodes), n1)
                          ELSE n1
                IN /\ dom' = d2
                   /\ node' = n2
                   /\ walker' = IF resolve THEN n2 ELSE w1
                   /\ materialized' =
                        IF resolve THEN Append(materialized, n1) ELSE materialized
                   /\ IF HasPart /\ part.type = "node" /\ n2 = Null
                      THEN \* line 190: node!.previousSibling of null
                           /\ pc' = "error" /\ err' = TypeError(190)
                           /\ UNCHANGED <<__parts, partIndex>>
                      ELSE IF HasPart /\ part.type = "node"
                      THEN /\ __parts' = Append(__parts,
                                handleTextExpression(partIndex, n2,
                                                     previousSibling(d2, n2)))
                           /\ partIndex' = partIndex + 1
                           /\ UNCHANGED <<pc, err>>
                      ELSE IF HasPart
                      THEN /\ __parts' = __parts \o
                                handleAttributeExpressions(n2, partIndex, part)
                           /\ partIndex' = partIndex + 1
                           /\ UNCHANGED <<pc, err>>
                      ELSE UNCHANGED <<__parts, partIndex, pc, err>>
  /\ UNCHANGED <<inputs, stack, nodeIndex, clones, updateVars>>

\* Line 133 false, lines 201-205: the fragment is returned.
CloneReturn ==
  /\ pc = "loop" /\ ~LoopCondition
  /\ pc' = "done"
  /\ UNCHANGED <<inputs, dom, walker, stack, node, partIndex, nodeIndex,
                 customElementsCount, __parts, err, iter, materialized,
                 clones, updateVars>>

\* Faulty variant: the next pass walks the tree the last pass left, as if
\* _clone() had worked on the template's own content and not on a copy.
CloneAgainOnSameTree ==
  /\ pc \in {"done", "error"} /\ clones < MaxClones
  /\ LET first == nextNode(dom, Root)
     IN /\ dom' = dom
        /\ node' = first
        /\ walker' = CurrentAfter(Root, first)
  /\ stack' = <<>>
  /\ partIndex' = 0
  /\ nodeIndex' = 0
  /\ customElementsCount' = MatchCount(template.nodes)
  /\ pc' = "loop"
  /\ err' = NoError
  /\ clones' = clones + 1
  /\ materialized' = <<>>
  /\ lastOp' = NoCall
  /\ UNCHANGED <<inputs, __parts, iter>>

\* One more _clone() on an instance whose last _clone() has ended.
CloneAgain ==
  /\ pc \in {"done", "error"} /\ clones < MaxClones
  /\ LET d == importNode(template.nodes)
         first == nextNode(d, Root)
     IN /\ dom' = d
        /\ node' = first
        /\ walker' = CurrentAfter(Root, first)
  /\ stack' = <<>>
  /\ partIndex' = 0
  /\ nodeIndex' = 0
  /\ customElementsCount' = MatchCount(template.nodes)
  /\ pc' = "loop"
  /\ err' = NoError
  /\ clones' = clones + 1
  /\ materialized' = <<>>
  /\ lastOp' = NoCall
  /\ UNCHANGED <<inputs, __parts, iter>>

\* ---------------------------------------------------- update, staging

\* The values arrays callers pass: entry i of the array tagged g is <<g, i>>,
\* so that every entry of every array is told from every other.
ValueArrays == {[i \in 1..k |-> <<g, i - 1>>] : g \in Tags, k \in 0..MaxVals}

\* Faulty variant: an index past the end wraps around to the start.
AtWrapping(values, i) ==
  IF values = <<>> THEN Undefined ELSE values[(i % Len(values)) + 1]

\* values[i]
At(values, i) == IF i < Len(values) THEN values[i + 1] ELSE Undefined

\* Faulty variant: i++ inside the `if`: holes do not advance the counter.
CounterSkippingHoles(parts, k) ==
  Cardinality({h \in 1..(k - 1) : ~parts[h].hole})

\* The value of the counter i when the loop of lines 50-55 (60-66) visits
\* entry k of __parts (k from 1): i++ runs for holes too.
CounterAt(parts, k) == k - 1

\* The entries of a list of calls that were made (holes make none).
Made(calls) == SelectSeq(calls, LAMBDA c : c.op # "")

\* Lines 50-55 and 60-66: the setValue calls, in order.
StageCalls(parts, values) ==
  Made([k \in 1..Len(parts) |->
          IF parts[k].hole THEN [op |-> "", k |-> k, arg |-> Undefined]
          ELSE [op |-> "setValue", k |-> k,
                arg |-> At(values, CounterAt(parts, k))]])

\* Lines 67-71: the commit calls, in order.
CommitCalls(parts) ==
  Made([k \in 1..Len(parts) |->
          [op |-> IF parts[k].hole THEN "" ELSE "commit", k |-> k,
           arg |-> Undefined]])

\* Faulty variant: Each Part is committed right after its setValue.
updateCallsInterleaved(parts, values) ==
  Made([i \in 1..(2 * Len(parts)) |->
          LET k == (i + 1) \div 2
          IN IF parts[k].hole THEN [op |-> "", k |-> k, arg |-> Undefined]
             ELSE IF i % 2 = 1
             THEN [op |-> "setValue", k |-> k,
                   arg |-> At(values, CounterAt(parts, k))]
             ELSE [op |-> "commit", k |-> k, arg |-> Undefined]])

\* Faulty variant: The commit loop runs before the staging loop.
updateCallsCommitFirst(parts, values) ==
  CommitCalls(parts) \o StageCalls(parts, values)

\* Faulty variant: updateWithoutCommit commits as update does.
updateWithoutCommitCommitting(parts, values) ==
  StageCalls(parts, values) \o CommitCalls(parts)

\* The calls updateWithoutCommit(values) and update(values) make.
updateWithoutCommitCalls(parts, values) == StageCalls(parts, values)
updateCalls(parts, values) == StageCalls(parts, values) \o CommitCalls(parts)

\* The Parts after the calls were made in order.
RECURSIVE Perform(_, _)
Perform(parts, calls) ==
  IF calls = <<>> THEN parts
  ELSE LET c == Head(calls)
       IN Perform([parts EXCEPT ![c.k] = IF c.op = "setValue"
                                         THEN setValue(@, c.arg) ELSE commit(@)],
                  Tail(calls))

\* What was staged and not committed when the next call begins.
Uncommitted == IF lastOp.name = "updateWithoutCommit"
               THEN <<lastOp.values>> ELSE <<>>

\* updateWithoutCommit(values), lines 48-57.
updateWithoutCommit(values) ==
  /\ pc \in {"idle", "done", "error"}
  /\ LET calls == updateWithoutCommitCalls(__parts, values)
     IN /\ __parts' = Perform(__parts, calls)
        /\ lastOp' = [name |-> "updateWithoutCommit", values |-> values,
                      calls |-> calls, previous |-> Uncommitted]
  /\ UNCHANGED <<inputs, cloneVars>>

\* update(values), lines 59-72.
update(values) ==
  /\ pc \in {"idle", "done", "error"}
  /\ LET calls == updateCalls(__parts, values)
     IN /\ __parts' = Perform(__parts, calls)
        /\ lastOp' = [name |-> "update", values |-> values,
                      calls |-> calls, previous |-> Uncommitted]
  /\ UNCHANGED <<inputs, cloneVars>>

\* ---------------------------------------------------------- specifications

CloneStep == SkipInactive \/ AdvanceCursor \/ ArriveAndBind \/ CloneReturn

\* One _clone() of a freshly constructed instance.
Next == CloneBegin \/ CloneStep

Spec == Init /\ [][Next]_vars

\* _clone() runs to its end once begun: the loop is ordinary synchronous code.
SpecFair == Spec /\ WF_vars(Next)

\* The life of an instance: any number of update calls before, between and
\* after its _clone() calls, for the descriptor lists of two small trees.
UpdateTrees ==
  {<<TemplateNode(ELEMENT_NODE, DivName, <<>>, 0),
     TemplateNode(COMMENT_NODE, <<"#comment">>, <<>>, 0)>>,
   <<TemplateNode(ELEMENT_NODE, SlotTag("w"), <<>>, 0),
     TemplateNode(COMMENT_NODE, <<"#comment">>, <<>>, 0)>>}

InitUpdate == Scenarios(UpdateTrees, Fans, MaxParts, "update")

NextUpdate ==
  \/ CloneBegin
  \/ CloneStep
  \/ CloneAgain
  \/ \E values \in ValueArrays : updateWithoutCommit(values)
  \/ \E values \in ValueArrays : update(values)

SpecUpdate == InitUpdate /\ [][NextUpdate]_vars

\* ================================================================== claims

\* The template nodes that are component placeholders.
SlotNodes == {i \in 1..Len(template.nodes) :
                includes(template.nodes[i].localName, mark)}

\* How often x occurs in the sequence s.
Count(s, x) == Cardinality({i \in 1..Len(s) : s[i] = x})

\* For each entry of a parts list the descriptor it belongs to (0-based),
\* InactiveIndex for a hole.
Owners(parts) ==
  [k \in 1..Len(parts) |-> IF parts[k].hole THEN InactiveIndex ELSE parts[k].part]

\* The owners of the entries the descriptors l[from..] are to leave: a hole
\* for an inactive one, one Part for a node part, fan Parts for an attribute
\* part.
RECURSIVE ExpectedOwners(_, _)
ExpectedOwners(l, from) ==
  IF from > Len(l) THEN <<>>
  ELSE LET d == l[from]
           own == IF ~isTemplatePartActive(d) THEN <<InactiveIndex>>
                  ELSE IF d.type = "node" THEN <<from - 1>>
                  ELSE [k \in 1..d.fan |-> from - 1]
       IN own \o ExpectedOwners(l, from + 1)

\* Every attribute part of the template yields exactly one Part.
SingleFan == \A k \in 1..Len(template.parts) :
               LET d == template.parts[k]
               IN isTemplatePartActive(d) /\ d.type = "attribute" => d.fan = 1

\* ------------------------------------------------------------------- C1

C2_LoopExits == (pc = "loop") ~> (pc \in {"done", "error"})

\* ------------------------------------------------------------------- C3

\* C3: no placeholder is ever replaced twice, and when _clone() has returned
\* with a context present, every placeholder of the clone was replaced once,
\* is out of the tree with its instance in the tree, and customElementsCount
\* is 0.
C3_SlotsMaterializedOnce ==
  /\ \A i \in SlotNodes : Count(materialized, i) <= 1
  /\ pc = "done" /\ context.present =>
       /\ customElementsCount = 0
       /\ \A i \in SlotNodes :
            /\ Count(materialized, i) = 1
            /\ dom.parentNode[i] = Null
            /\ dom.parentNode[InstanceOf(Len(template.nodes), i)] # Null

\* A returned _clone() with a context that replaced a placeholder lying
\* after the last part, and one at a part.
C3_Witness ==
  /\ pc = "done" /\ context.present
  /\ Len(template.parts) > 0
  /\ \E i \in SlotNodes : i - 1 > LastIndex(template.parts)
  /\ \E i \in SlotNodes : i - 1 = LastIndex(template.parts)

\* ------------------------------------------------------------------- C4

\* The entries of __parts that are Parts, in list order.
NonHoles(parts) == SelectSeq([k \in 1..Len(parts) |-> k],
                             LAMBDA k : ~parts[k].hole)

\* The Parts called by the calls cs, in call order.
Called(cs) == [i \in 1..Len(cs) |-> cs[i].k]

\* C4: within one update(values), setValue has been called on every Part
\* before commit is called on any, and commit is then called once on each
\* Part, in the order of __parts.
C4_StageAllThenCommitAll ==
  lastOp.name = "update" =>
    LET cs == lastOp.calls
        n == Len(NonHoles(__parts))
    IN /\ Len(cs) = 2 * n
       /\ \A i \in 1..n : cs[i].op = "setValue" /\ cs[n + i].op = "commit"
       /\ Called(SubSeq(cs, 1, n)) = NonHoles(__parts)
       /\ Called(SubSeq(cs, n + 1, 2 * n)) = NonHoles(__parts)

\* An update of a list of a hole and two Parts.
C4_Witness ==
  /\ lastOp.name = "update"
  /\ Len(NonHoles(__parts)) >= 2
  /\ \E k \in 1..Len(__parts) : __parts[k].hole

\* ------------------------------------------------------------------- C5

\* What the Parts have written to the tree.
Rendered == [k \in 1..Len(__parts) |-> __parts[k].value]

\* C5: updateWithoutCommit(values) calls setValue only, never commit, and
\* leaves the tree as it was: what the Parts rendered, and the fragment.
C5_StagingLeavesTree ==
  [][lastOp'.name = "updateWithoutCommit" =>
       /\ \A i \in 1..Len(lastOp'.calls) : lastOp'.calls[i].op = "setValue"
       /\ Rendered' = Rendered
       /\ dom' = dom]_vars

\* A second staging in a row, after an earlier commit, with a Part whose
\* staged value differs from what it rendered.
C5_Witness ==
  /\ lastOp.name = "updateWithoutCommit"
  /\ lastOp.previous # <<>>
  /\ \E k \in 1..Len(__parts) :
       /\ ~__parts[k].hole
       /\ __parts[k].value # Undefined
       /\ __parts[k].pending # __parts[k].value

\* ------------------------------------------------------------------- C6

\* C6: when values were staged and, with no commit in between, staged again,
\* every Part holds the second value of its ordinal; when the second staging
\* is that of update(values), its commit is preceded by the setValue of that
\* value, and that value is what the Part rendered.
C6_LastStagedWins ==
  lastOp.name # "" /\ lastOp.previous # <<>> =>
    \A k \in 1..Len(__parts) :
      ~__parts[k].hole =>
        /\ __parts[k].pending = At(lastOp.values, k - 1)
        /\ lastOp.name = "update" =>
             /\ __parts[k].value = At(lastOp.values, k - 1)
             /\ \E i, j \in 1..Len(lastOp.calls) :
                  /\ i < j
                  /\ lastOp.calls[i] = [op |-> "setValue", k |-> k,
                                        arg |-> At(lastOp.values, k - 1)]
                  /\ lastOp.calls[j].op = "commit" /\ lastOp.calls[j].k = k

\* An update right after a staging of other values, for a Part both arrays
\* give a value.
C6_Witness ==
  /\ lastOp.name = "update"
  /\ lastOp.previous # <<>>
  /\ \E k \in 1..Len(__parts) :
       /\ ~__parts[k].hole
       /\ k <= Len(lastOp.values) /\ k <= Len(lastOp.previous[1])
       /\ lastOp.previous[1][k] # lastOp.values[k]

\* ------------------------------------------------------------------- C7

\* C7: update and updateWithoutCommit call setValue on the Part at entry k
\* (counted from 0) with values[k], once, and make no call for a hole.
C7_ValueByOrdinal ==
  lastOp.name # "" =>
    LET staging == SelectSeq(lastOp.calls, LAMBDA c : c.op = "setValue")
    IN /\ Called(staging) = NonHoles(__parts)
       /\ \A i \in 1..Len(staging) :
            staging[i].arg = At(lastOp.values, staging[i].k - 1)

\* A call whose values reach a Part that follows a hole.
C7_Witness ==
  /\ lastOp.name # ""
  /\ \E h, k \in 1..Len(__parts) :
       /\ h < k /\ __parts[h].hole /\ ~__parts[k].hole
       /\ k <= Len(lastOp.values)
       /\ __parts[k].pending = lastOp.values[k]

\* ------------------------------------------------------------------- C8

\* C8: a replaced placeholder has left the tree and kept no attribute; its
\* instance has all its attributes and its place among its siblings.
C8_Transplanted ==
  \A m \in 1..Len(materialized) :
    LET i == materialized[m]
        inst == InstanceOf(Len(template.nodes), i)
        before == importNode(template.nodes)
    IN /\ dom.attributes[inst] = template.nodes[i].attrs
       /\ dom.attributes[i] = <<>>
       /\ dom.parentNode[i] = Null
       /\ dom.parentNode[inst] = before.parentNode[i]
       /\ IndexIn(SiblingsOf(dom, inst), inst)
            = IndexIn(SiblingsOf(before, i), i)

\* ------------------------------------------------------------------- C9

\* C9: _clone() does not fail at a placeholder whose name the context does
\* not declare and the ambient registry knows.
C9_AmbientFallback ==
  ~ /\ pc = "error"
    /\ isCustomElement(dom, node)
    /\ \E n \in customElements \ context.declarations :
         dom.localName[node] = SlotTag(n)

\* ------------------------------------------------------------------ C10

\* C10: when _clone() throws the declarations error, it names the slot, no
\* registry has that name, the placeholder is in the tree and has no
\* instance, no Part belongs to the current or a later descriptor, and the
\* entries of the earlier descriptors are all there.
C10_UnresolvedComponent ==
  pc = "error" /\ err.name = "Error" =>
    /\ context.present
    /\ isCustomElement(dom, node)
    /\ \E n \in Names \ (context.declarations \cup customElements) :
         /\ dom.localName[node] = SlotTag(n)
         /\ err.message = <<"Make sure that you've added ", n,
                            " into declarations!">>
    /\ dom.parentNode[node] # Null
    /\ IndexIn(SiblingsOf(dom, node), node) # 0
    /\ dom.nodeType[InstanceOf(Len(template.nodes), node)] = 0
    /\ Count(materialized, node) = 0
    /\ \A k \in 1..Len(__parts) : ~__parts[k].hole => __parts[k].part < partIndex
    /\ clones = 1 =>
         Owners(__parts) = ExpectedOwners(SubSeq(template.parts, 1, partIndex), 1)

\* The declarations error thrown at a part's placeholder after an earlier
\* part was bound.
C10_Witness ==
  /\ pc = "error" /\ err.name = "Error"
  /\ Len(__parts) > 0
  /\ partIndex < Len(template.parts)

\* ------------------------------------------------------------------ C11

\* The template nodes that are nested <template> elements.
TemplateNodes == {i \in 1..Len(template.nodes) :
                    template.nodes[i].localName = TemplateName}

\* The clone's node at the position (0-based) a descriptor declares.
NodeAtIndex(index) == index + 1

\* C11: in a template with nested templates (and no placeholders) every Part
\* is bound to the node at the position its descriptor declares, and when
\* _clone() has returned every descriptor has left its entries, once, in
\* order.
C11_NestedTransparency ==
  TemplateNodes # {} /\ SlotNodes = {} =>
    /\ \A k \in 1..Len(__parts) :
         ~__parts[k].hole =>
           __parts[k].node = NodeAtIndex(template.parts[__parts[k].part + 1].index)
    /\ pc = "done" /\ clones = 1 =>
         Owners(__parts) = ExpectedOwners(template.parts, 1)

\* ------------------------------------------------------------------ C12

\* The inner loop of lines 144-158 is about to run an iteration.
Advancing ==
  /\ pc = "loop" /\ LoopCondition
  /\ HasPart /\ isTemplatePartActive(part) /\ nodeIndex < part.index

\* The loop has arrived at the position of an active descriptor and is about
\* to bind it (lines 163-196).
Binding ==
  /\ pc = "loop" /\ LoopCondition
  /\ HasPart /\ isTemplatePartActive(part) /\ ~(nodeIndex < part.index)

\* The stack after lines 146-149 of the iteration about to run.
StackAfterPush ==
  IF dom.localName[node] = TemplateName THEN Append(stack, node) ELSE stack

\* walker.nextNode() of line 150 is about to return null.
WalkerRunsOut ==
  /\ Advancing /\ node # Null
  /\ nextNode(dom, IF dom.localName[node] = TemplateName
                   THEN Content(node) ELSE walker) = Null

\* C12: when the walker runs out while advancing, the stack holds a template
\* and the walker finds a node after that template; and the live node is not
\* null when a descriptor is bound.
C12_PopFindsNode ==
  /\ WalkerRunsOut =>
       /\ StackAfterPush # <<>>
       /\ nextNode(dom, StackAfterPush[Len(StackAfterPush)]) # Null
  /\ Binding => node # Null

\* ------------------------------------------------------------------ C13

\* The node of the finished clone at the position (0-based) a descriptor
\* declares: the node cloned from the template node there, or the instance
\* that has taken its place.
Designated(index) ==
  IF Count(materialized, NodeAtIndex(index)) > 0
  THEN InstanceOf(Len(template.nodes), NodeAtIndex(index))
  ELSE NodeAtIndex(index)

\* C13: once a placeholder has been replaced by its instance, every Part is
\* still bound to the node at the position its descriptor declares (in
\* templates without nested templates).
C13_OrdinalsSurviveMaterializing ==
  TemplateNodes = {} /\ materialized # <<>> =>
    \A k \in 1..Len(__parts) :
      ~__parts[k].hole =>
        __parts[k].node = Designated(template.parts[__parts[k].part + 1].index)

\* ------------------------------------------------------------------ C14

\* C14: the iteration for an inactive descriptor appends one hole and adds
\* one to partIndex, and leaves the live node, the walker, nodeIndex, the
\* stack, the tree, the placeholders and customElementsCount as they were; no
\* Part is made.
C14_InactiveLeavesHole ==
  [][(pc = "loop" /\ LoopCondition /\ HasPart /\ ~isTemplatePartActive(part)) =>
       /\ __parts' = Append(__parts, Hole)
       /\ partIndex' = partIndex + 1
       /\ UNCHANGED <<node, walker, nodeIndex, stack, dom, materialized,
                      customElementsCount, pc, err, inputs>>]_vars

\* A hole just left for an inactive descriptor that follows a bound one, with
\* the live node on a node and a placeholder still ahead.
C14_Witness ==
  /\ pc = "loop" /\ partIndex >= 2
  /\ ~isTemplatePartActive(template.parts[partIndex])
  /\ isTemplatePartActive(template.parts[partIndex - 1])
  /\ Len(__parts) >= 2 /\ __parts[Len(__parts)].hole
  /\ ~__parts[Len(__parts) - 1].hole
  /\ node # Null
  /\ customElementsCount > 0

\* ------------------------------------------------------------------ C15

\* The position (0-based) the descriptor of entry k of __parts declares.
IndexOfEntry(k) == template.parts[__parts[k].part + 1].index

CanonicalPosition(ref) ==
  LET size == Len(template.nodes)
  IN IF ref = Root \/ ref = Null THEN 0
     ELSE IF IsContent(ref) THEN 2 * TemplateOf(ref)
     ELSE IF ref <= size THEN 2 * ref
     ELSE IF ref <= 2 * size THEN 2 * (ref - size)
     ELSE 2 * (ref - 2 * size) + 1

\* C16: in every step of a _clone() pass nodeIndex does not decrease and
\* neither the walker nor the live node moves to an earlier position; and a
\* descriptor is bound with nodeIndex at its position.
C16_ForwardAndAligned ==
  [][pc = "loop" =>
       /\ nodeIndex' >= nodeIndex
       /\ CanonicalPosition(walker') >= CanonicalPosition(walker)
       /\ node # Null /\ node' # Null =>
            CanonicalPosition(node') >= CanonicalPosition(node)
       /\ Binding => nodeIndex = part.index]_vars

\* ------------------------------------------------------------------ C17

\* C17: __parts is empty until the first _clone(), and whenever a _clone()
\* of the instance has returned, however many calls came before, it holds the
\* entries one pass over the descriptors leaves, in order: its length has not
\* changed since the first pass.
C17_PopulatedOnce ==
  /\ clones = 0 => __parts = <<>>
  /\ pc = "done" => Owners(__parts) = ExpectedOwners(template.parts, 1)

\* ------------------------------------------------------------------ C18

\* C18: whatever the length of values, update and updateWithoutCommit call
\* setValue on every Part, with values[k] for the entry at ordinal k when
\* values has one and with undefined when it has not; update commits every
\* Part all the same; and no value of an index past the end of __parts is
\* handed to any Part.
C18_ArityTolerance ==
  lastOp.name # "" =>
    LET vals == lastOp.values
        staging == SelectSeq(lastOp.calls, LAMBDA c : c.op = "setValue")
        commits == SelectSeq(lastOp.calls, LAMBDA c : c.op = "commit")
    IN /\ Called(staging) = NonHoles(__parts)
       /\ \A i \in 1..Len(staging) :
            LET k == staging[i].k
            IN staging[i].arg = IF k <= Len(vals) THEN vals[k] ELSE Undefined
       /\ lastOp.name = "update" => Called(commits) = NonHoles(__parts)
       /\ \A j \in (Len(__parts) + 1)..Len(vals) :
            \A i \in 1..Len(lastOp.calls) : lastOp.calls[i].arg # vals[j]

\* An update with fewer values than entries: one Part is staged with a
\* value, a later one with undefined, and both are committed.
C18_Witness ==
  /\ lastOp.name = "update"
  /\ Len(lastOp.values) < Len(__parts)
  /\ \E h, k \in 1..Len(__parts) :
       /\ h <= Len(lastOp.values) /\ k > Len(lastOp.values)
       /\ \E i, j \in 1..Len(lastOp.calls) :
            /\ lastOp.calls[i] = [op |-> "setValue", k |-> h,
                                  arg |-> lastOp.values[h]]
            /\ lastOp.calls[j] = [op |-> "setValue", k |-> k, arg |-> Undefined]
       /\ \E i, j \in 1..Len(lastOp.calls) :
            /\ lastOp.calls[i] = [op |-> "commit", k |-> h, arg |-> Undefined]
            /\ lastOp.calls[j] = [op |-> "commit", k |-> k, arg |-> Undefined]

\* ------------------------------------------------------------------ C19

\* The template has no active descriptor and no placeholder.
NoActiveNoSlots ==
  /\ \A k \in 1..Len(template.parts) : ~isTemplatePartActive(template.parts[k])
  /\ SlotNodes = {}

\* C19: for a template without active descriptors and without placeholders
\* __parts holds holes only; during and after _clone() the cursor is where
\* line 128 put it, nodeIndex is 0, the clone has the shape of the template's
\* tree and nothing is thrown; after the return there is one hole for each
\* descriptor; and an update makes no call.
C19_ZeroParts ==
  NoActiveNoSlots /\ clones <= 1 =>
    /\ \A k \in 1..Len(__parts) : __parts[k].hole
    /\ pc # "idle" =>
         /\ nodeIndex = 0
         /\ node = nextNode(importNode(template.nodes), Root)
         /\ dom = importNode(template.nodes)
         /\ pc # "error"
    /\ pc = "done" => Len(__parts) = Len(template.parts)
    /\ lastOp.name # "" => lastOp.calls = <<>>

\* ------------------------------------------------------------------ C20

\* C20: no step of _clone(), update or updateWithoutCommit changes the
\* template's tree or descriptors, and every _clone(), after whatever passes
\* and updates came before, starts on a fresh copy of the template's tree,
\* at its first node, with the slot count of the template's markup.
C20_TemplateReadOnly ==
  [][/\ template' = template
     /\ pc # "loop" /\ pc' = "loop" =>
          /\ dom' = importNode(template.nodes)
          /\ node' = nextNode(importNode(template.nodes), Root)
          /\ customElementsCount' = MatchCount(template.nodes)]_vars

\* A second _clone() just begun on an instance whose first pass replaced a
\* placeholder by its instance and bound a Part to it.
C20_Witness ==
  /\ clones = 2 /\ pc = "loop" /\ partIndex = 0 /\ nodeIndex = 0
  /\ SlotNodes # {} /\ context.present
  /\ customElementsCount = Cardinality(SlotNodes)
  /\ \E k \in 1..Len(__parts) :
       /\ ~__parts[k].hole
       /\ __parts[k].node > Len(template.nodes)
  /\ \A i \in SlotNodes : dom.parentNode[i] # Null

====
